---- MODULE Spec2Model ----
(***************************************************************************)
(* Model of the census pipeline (src/src/data_processor.py,                *)
(* clean_census_data) and of the dashboard that serves its artifact        *)
(* (src/src/app.py).                                                       *)
(*                                                                         *)
(* Text is a sequence of one-character strings.  A text cell that pandas   *)
(* holds as NaN is the value NaN; a numeric cell is a set holding at most  *)
(* one integer, the empty set being NaN.  Jitter factors are hundredths    *)
(* (80 is 0.8); per-capita rates are hundredths as well (a per_capita of   *)
(* 12.34 is 1234).  Arithmetic is exact, the code's is binary floating     *)
(* point.                                                                  *)
(***************************************************************************)
EXTENDS Integers, Sequences, FiniteSets

VARIABLES
    census_file,     \* the data rows of the occupation csv (after the 7 skipped lines and the header)
    province_file,   \* the rows of the province population csv
    pc,              \* position of clean_census_data
    df,              \* the occupation DataFrame
    dtypes,          \* dtype read_csv inferred for each column of df
    provincial_dfs,  \* the list of province frames built by the loop
    error,           \* the exception that ended clean_census_data or the dashboard ("" if none)
    pickle_file,     \* the artifact written by pd.to_pickle (<<>> while absent)
    heap,            \* the dashboard process's row storage: address -> row
    processed_data,  \* app.py's module-level dict: table name -> sequence of row addresses
    dash_pc,         \* position of the dashboard process
    last             \* what the last callback returned or raised

vars == <<census_file, province_file, pc, df, dtypes, provincial_dfs, error,
          pickle_file, heap, processed_data, dash_pc, last>>

(***************************************************************************)
(* Bounds of the model.                                                    *)
(***************************************************************************)
MaxRows == 2
MaxProvinces == 2

(***************************************************************************)
(* Characters and regular-expression character classes.                    *)
(***************************************************************************)
NaN == <<"NaN">>

Digit == {"0", "1", "2", "3", "4", "5", "6", "7", "8", "9"}

Whitespace == {" "}

Upper == {"A", "B", "C", "D", "E", "F", "G", "H", "I", "J", "K", "L", "M",
          "N", "O", "P", "Q", "R", "S", "T", "U", "V", "W", "X", "Y", "Z"}

DigitValue(c) ==
    CASE c = "0" -> 0 [] c = "1" -> 1 [] c = "2" -> 2 [] c = "3" -> 3
      [] c = "4" -> 4 [] c = "5" -> 5 [] c = "6" -> 6 [] c = "7" -> 7
      [] c = "8" -> 8 [] c = "9" -> 9

\* Length of the longest suffix of s[1..n] whose characters are all in cls.
RECURSIVE TrailingRun(_, _, _)
TrailingRun(s, n, cls) ==
    IF n = 0 \/ s[n] \notin cls THEN 0 ELSE 1 + TrailingRun(s, n - 1, cls)

\* Length of the longest prefix of s, from position n on, all in cls.
RECURSIVE LeadingRun(_, _, _)
LeadingRun(s, n, cls) ==
    IF n > Len(s) \/ s[n] \notin cls THEN 0 ELSE 1 + LeadingRun(s, n + 1, cls)

(***************************************************************************)
(* Series.str.replace(r'\s*i\d+\s*$', '', regex=True): the match ends at   *)
(* the end of the text, so from the right it is a whitespace run, a        *)
(* non-empty digit run, the letter i, and the whitespace run before it.    *)
(* NaN stays NaN.  Without a match the text is unchanged.                  *)
(***************************************************************************)
StripFootnote(s) ==
    IF s = NaN THEN NaN
    ELSE LET n1 == Len(s) - TrailingRun(s, Len(s), Whitespace)
             nd == TrailingRun(s, n1, Digit)
             n2 == n1 - nd
         IN  IF nd >= 1 /\ n2 >= 1 /\ s[n2] = "i"
             THEN SubSeq(s, 1, n2 - 1 - TrailingRun(s, n2 - 1, Whitespace))
             ELSE s

\* Series.str.replace(r'\s*\d+\s*$', '', regex=True): one trailing digit run.
StripDigits(s) ==
    IF s = NaN THEN NaN
    ELSE LET n1 == Len(s) - TrailingRun(s, Len(s), Whitespace)
             nd == TrailingRun(s, n1, Digit)
             n2 == n1 - nd
         IN  IF nd >= 1
             THEN SubSeq(s, 1, n2 - TrailingRun(s, n2, Whitespace))
             ELSE s

\* Series.str.strip()
Strip(s) ==
    IF s = NaN THEN NaN
    ELSE LET lead  == LeadingRun(s, 1, Whitespace)
             trail == TrailingRun(s, Len(s), Whitespace)
         IN  IF lead = Len(s) THEN <<>> ELSE SubSeq(s, lead + 1, Len(s) - trail)

(***************************************************************************)
(* Series.str.count(r'^\s*') is len(re.findall(r'^\s*', s)).  The pattern  *)
(* is anchored: it matches at offset 0 (the whitespace run there, possibly *)
(* empty) and at no other offset.  findall resumes after a non-empty match *)
(* at its end and after an empty match one character further.              *)
(***************************************************************************)
MatchLeadingWs(s, off) ==
    IF off = 0 THEN LeadingRun(s, 1, Whitespace) ELSE -1

RECURSIVE FindAllCount(_, _)
FindAllCount(s, off) ==
    IF off > Len(s) THEN 0
    ELSE LET m == MatchLeadingWs(s, off)
         IN  IF m < 0 THEN FindAllCount(s, off + 1)
             ELSE 1 + FindAllCount(s, IF m = 0 THEN off + 1 ELSE off + m)

\* df['occupation'].str.count(r'^\s*').fillna(0)
StrCountLevel(s) == IF s = NaN THEN 0 ELSE FindAllCount(s, 0)

\* Series.str.match(r'^\d\s[A-Z].*'); the mask is False here for NaN-free text.
MatchesNoc(s) ==
    /\ s # NaN
    /\ Len(s) >= 3
    /\ s[1] \in Digit
    /\ s[2] \in Whitespace
    /\ s[3] \in Upper

(***************************************************************************)
(* Numbers.                                                                *)
(***************************************************************************)
\* Series.str.replace(',', '')
RECURSIVE RemoveCommas(_)
RemoveCommas(s) ==
    IF s = NaN THEN NaN
    ELSE IF s = <<>> THEN <<>>
    ELSE IF Head(s) = "," THEN RemoveCommas(Tail(s))
    ELSE <<Head(s)>> \o RemoveCommas(Tail(s))

IsPlainNumber(s) ==
    s # NaN /\ Len(s) >= 1 /\ \A k \in 1..Len(s) : s[k] \in Digit

RECURSIVE DecimalValue(_, _)
DecimalValue(s, n) ==
    IF n = 0 THEN 0 ELSE 10 * DecimalValue(s, n - 1) + DigitValue(s[n])

\* pd.to_numeric(text, errors='coerce') of one cell.  The tokens of the input
\* files are digit runs, digit runs with commas, a letter or blank: a digit
\* run gives its number, anything else (NaN included) gives NaN.
ToNumeric(s) == IF IsPlainNumber(s) THEN {DecimalValue(s, Len(s))} ELSE {}

\* numpy/pandas round of q + r/d (0 <= r < d): to the nearest integer, ties
\* to the even one.
HalfEven(q, r, d) ==
    IF 2 * r < d THEN q
    ELSE IF 2 * r > d THEN q + 1
    ELSE IF q % 2 = 0 THEN q ELSE q + 1

\* n / d rounded up
RoundUp(n, d) == IF n % d = 0 THEN n \div d ELSE (n \div d) + 1

\* round of n / d  (n >= 0, d > 0)
RoundHalfEven(n, d) == HalfEven(n \div d, n % d, d)

(***************************************************************************)
(* Program constants.                                                      *)
(***************************************************************************)
JitterLow == 80

JitterHigh == 120

\* np.random.uniform(0.8, 1.2): the two ends of the range.
Jitter == {JitterLow, JitterHigh}

NumericColumns == <<"total", "men", "women">>

NurseLabel ==
    <<"3","1","3","0","1"," ","R","e","g","i","s","t","e","r","e","d"," ","n",
      "u","r","s","e","s"," ","a","n","d"," ","r","e","g","i","s","t","e","r",
      "e","d"," ","p","s","y","c","h","i","a","t","r","i","c"," ","n","u","r",
      "s","e","s">>

PoliceLabel ==
    <<"4","2","1","0","0"," ","P","o","l","i","c","e"," ","o","f","f","i","c",
      "e","r","s"," ","(","e","x","c","e","p","t"," ","c","o","m","m","i","s",
      "s","i","o","n","e","d",")">>

FirefighterLabel ==
    <<"4","2","1","0","1"," ","F","i","r","e","f","i","g","h","t","e","r",
      "s">>

ComputerLabel ==
    <<"2","1","3","1","1"," ","C","o","m","p","u","t","e","r"," ","e","n","g",
      "i","n","e","e","r","s"," ","(","e","x","c","e","p","t"," ","s","o","f",
      "t","w","a","r","e"," ","e","n","g","i","n","e","e","r","s"," ","a","n",
      "d"," ","d","e","s","i","g","n","e","r","s",")">>

MechanicalLabel ==
    <<"2","1","3","0","1"," ","M","e","c","h","a","n","i","c","a","l"," ","e",
      "n","g","i","n","e","e","r","s">>

ElectricalLabel ==
    <<"2","1","3","1","0"," ","E","l","e","c","t","r","i","c","a","l"," ","a",
      "n","d"," ","e","l","e","c","t","r","o","n","i","c","s"," ","e","n","g",
      "i","n","e","e","r","s">>

\* the dict essential_services: display name -> occupation label
essential_services ==
    [name \in {"Nurses", "Police Officers", "Firefighters"} |->
        CASE name = "Nurses" -> NurseLabel
          [] name = "Police Officers" -> PoliceLabel
          [] name = "Firefighters" -> FirefighterLabel]

\* the dict engineering_occupations
engineering_occupations ==
    [name \in {"Computer", "Mechanical", "Electrical"} |->
        CASE name = "Computer" -> ComputerLabel
          [] name = "Mechanical" -> MechanicalLabel
          [] name = "Electrical" -> ElectricalLabel]

\* dict.values()
Values(d) == {d[k] : k \in DOMAIN d}

\* Series.map({v: k for k, v in d.items()}) of one cell: the display name,
\* "NaN" when the label is no value of d.
InverseMap(d, label) ==
    IF label \in Values(d)
    THEN CHOOSE k \in DOMAIN d : d[k] = label
    ELSE "NaN"

(***************************************************************************)
(* Input files.  An input table is a run of consecutive rows of the sample *)
(* file, at most MaxRows (MaxProvinces) of them.  Every sample row has a   *)
(* label; an empty text is a blank csv field.                              *)
(***************************************************************************)
CensusRows == <<
    [occupation |->
        <<"1"," ","B","u","s","i","n","e","s","s">>,
     total |-> <<"1",",","2","3","4">>, men |-> <<"1",",","0","0","0">>, women |-> <<"x">>],
    [occupation |->
        <<" "," ","3","1","3","0","1"," ","R","e","g","i","s","t","e","r","e",
          "d"," ","n","u","r","s","e","s"," ","a","n","d"," ","r","e","g","i",
          "s","t","e","r","e","d"," ","p","s","y","c","h","i","a","t","r","i",
          "c"," ","n","u","r","s","e","s","1","2">>,
     total |-> <<"4","0">>, men |-> <<"4">>, women |-> <<"3","6">>],
    [occupation |->
        <<" "," ","4","2","1","0","1"," ","F","i","r","e","f","i","g","h","t",
          "e","r","s"," ","i","3"," ">>,
     total |-> <<"2",",","0","0","0">>, men |-> <<"1",",","5","0","0">>, women |-> <<>>],
    [occupation |->
        <<" "," "," "," ","2","1","3","0","1"," ","M","e","c","h","a","n","i",
          "c","a","l"," ","e","n","g","i","n","e","e","r","s">>,
     total |-> <<"1",",","0","0","0">>, men |-> <<"x">>, women |-> <<"1",",","0","0","0">>],
    [occupation |->
        <<"2"," ","N","a","t","u","r","a","l"," ","i","1","2">>,
     total |-> <<"2">>, men |-> <<"1">>, women |-> <<"1">>],
    [occupation |->
        <<" ","C","e","n","s","u","s"," ","2","0","2","1"," ","3">>,
     total |-> <<"x">>, men |-> <<"2",",","0","0","0">>, women |-> <<"1",",","0","0","0">>]
>>

ProvinceRows == <<
    [province_code |-> "A", province_name |-> "Alpha", population |-> 100],
    [province_code |-> "B", province_name |-> "Beta", population |-> 300],
    [province_code |-> "C", province_name |-> "Gamma", population |-> 200]
>>

Windows(file, max) ==
    UNION {{SubSeq(file, a, b) : b \in a..(a + max - 1) \cap 1..Len(file)} :
           a \in 1..Len(file)}

(***************************************************************************)
(* DataFrame rows are records; a frame is a sequence of rows.              *)
(***************************************************************************)
\* the row r with column col set to v (added when r has no such column)
With(r, col, v) ==
    [c \in DOMAIN r \cup {col} |-> IF c = col THEN v ELSE r[c]]

Column(frame, col) == [k \in 1..Len(frame) |-> frame[k][col]]

\* pd.read_csv: a blank field is NaN
ReadCell(text) == IF text = <<>> THEN NaN ELSE text

\* pd.read_csv's dtype for a column: all blank is an all-NaN column, blanks
\* and plain numbers give a numeric column, anything else keeps the texts.
InferDtype(cells) ==
    IF \A k \in 1..Len(cells) : cells[k] = NaN THEN "empty"
    ELSE IF \A k \in 1..Len(cells) : cells[k] = NaN \/ IsPlainNumber(cells[k])
    THEN "numeric"
    ELSE "object"

RECURSIVE SumPopulation(_)
SumPopulation(provinces) ==
    IF provinces = <<>> THEN 0
    ELSE Head(provinces).population + SumPopulation(Tail(provinces))

\* the scaling without the population share
ScaleWithoutShare(cell, population, total_population, u) ==
    {RoundHalfEven(v * u, 100) : v \in cell}

\* (province_df[col] * pop_ratio * np.random.uniform(0.8, 1.2)).round() of one
\* cell, u the drawn factor in hundredths; NaN stays NaN.
Scale(cell, population, total_population, u) ==
    {RoundHalfEven(v * population * u, total_population * 100) : v \in cell}

\* the rate rounded to a whole number instead of to 2 decimals
PerCapitaWhole(cell, population) ==
    {100 * HalfEven((v * 100000) \div population, (v * 100000) % population,
                    population) : v \in cell}

\* (province_df[col] / row['population'] * 100000).round(2) of one cell, in
\* hundredths; the division is done in two steps to keep the products small.
PerCapita(cell, population) ==
    {LET x  == v * 100000
         q1 == x \div population
         r1 == x % population
         q  == q1 * 100 + (r1 * 100) \div population
         r  == (r1 * 100) % population
     IN  HalfEven(q, r, population) : v \in cell}

\* one iteration of the loop over province_data.iterrows(): the province's
\* copy of df, u[col] the factor drawn for each column.
ProvinceFrame(frame, prow, total_population, u) ==
    [k \in 1..Len(frame) |->
        LET r == frame[k]
            t == Scale(r.total, prow.population, total_population, u.total)
            m == Scale(r.men, prow.population, total_population, u.men)
            w == Scale(r.women, prow.population, total_population, u.women)
        IN  [occupation |-> r.occupation, total |-> t, men |-> m, women |-> w,
             level |-> r.level,
             province |-> prow.province_code,
             province_name |-> prow.province_name,
             population |-> prow.population,
             per_capita |-> PerCapita(t, prow.population),
             men_per_capita |-> PerCapita(m, prow.population),
             women_per_capita |-> PerCapita(w, prow.population)]]

\* the frames concatenated last first
RECURSIVE ConcatReversed(_)
ConcatReversed(frames) ==
    IF frames = <<>> THEN <<>> ELSE ConcatReversed(Tail(frames)) \o Head(frames)

\* pd.concat(provincial_dfs, ignore_index=True)
RECURSIVE Concat(_)
Concat(frames) ==
    IF frames = <<>> THEN <<>> ELSE Head(frames) \o Concat(Tail(frames))

(***************************************************************************)
(* Row storage.  A DataFrame object is a sequence of row addresses into    *)
(* cells (address -> row); two frames that share addresses share data.     *)
(***************************************************************************)
NoCells == [a \in {} |-> <<>>]

NextAddr(cells) ==
    IF DOMAIN cells = {} THEN 1
    ELSE 1 + CHOOSE a \in DOMAIN cells : \A b \in DOMAIN cells : b <= a

Deref(cells, frame) == [k \in 1..Len(frame) |-> cells[frame[k]]]

\* a new frame holding rows: [cells, frame]
Alloc(cells, rows) ==
    LET base == NextAddr(cells)
        new  == base..(base + Len(rows) - 1)
    IN  [cells |-> [a \in DOMAIN cells \cup new |->
                        IF a \in new THEN rows[a - base + 1] ELSE cells[a]],
         frame |-> [k \in 1..Len(rows) |-> base + k - 1]]

\* DataFrame.copy()
Copy(cells, frame) == Alloc(cells, Deref(cells, frame))

RECURSIVE MaskSelect(_, _)
MaskSelect(frame, mask) ==
    IF frame = <<>> THEN <<>>
    ELSE (IF Head(mask) THEN <<Head(frame)>> ELSE <<>>)
            \o MaskSelect(Tail(frame), Tail(mask))

\* the selection as a view: the selected rows themselves, not copies
BoolIndexView(cells, frame, mask) ==
    [cells |-> cells, frame |-> MaskSelect(frame, mask)]

\* df[mask] with a boolean Series: the selected rows, copied into a new frame
BoolIndex(cells, frame, mask) ==
    Alloc(cells, Deref(cells, MaskSelect(frame, mask)))

\* frame[col] = values: writes the rows the frame holds
SetColumn(cells, frame, col, values) ==
    [a \in DOMAIN cells |->
        IF \E k \in 1..Len(frame) : frame[k] = a
        THEN With(cells[a], col,
                  values[CHOOSE k \in 1..Len(frame) : frame[k] = a])
        ELSE cells[a]]

\* notna() in place of isin(values)
IsNotNa(label, values) == label # NaN

\* Series.isin(values)
IsIn(label, values) == label \in values

(***************************************************************************)
(* clean_census_data                                                       *)
(***************************************************************************)
ColumnNames == {"occupation", "total", "men", "women"}

NoFile == <<>>

Init ==
    /\ census_file \in Windows(CensusRows, MaxRows)
    /\ province_file \in Windows(ProvinceRows, MaxProvinces)
    /\ pc = "start"
    /\ df = <<>>
    /\ dtypes = <<>>
    /\ provincial_dfs = <<>>
    /\ error = ""
    /\ pickle_file = NoFile
    /\ heap = NoCells
    /\ processed_data = <<>>
    /\ dash_pc = "not_started"
    /\ last = <<>>

\* lines 24-33: read both files, drop empty columns and rows, name the columns
ReadCsv ==
    /\ pc = "start"
    /\ LET raw  == [k \in 1..Len(census_file) |->
                       [c \in ColumnNames |-> ReadCell(census_file[k][c])]]
           dt   == [c \in ColumnNames |-> InferDtype(Column(raw, c))]
           kept == {c \in ColumnNames : dt[c] # "empty"}
           rows == SelectSeq(raw, LAMBDA r : \E c \in kept : r[c] # NaN)
       IN  IF Cardinality(kept) # Cardinality(ColumnNames)
           THEN \* df.columns = [4 names] on fewer columns
                /\ pc' = "error"
                /\ error' = "ValueError"
                /\ UNCHANGED <<df, dtypes>>
           ELSE /\ pc' = "clean"
                /\ df' = rows
                /\ dtypes' = dt
                /\ UNCHANGED error
    /\ UNCHANGED <<census_file, province_file, provincial_dfs, pickle_file,
                   heap, processed_data, dash_pc, last>>

\* lines 35-39: the two replace passes over the labels
CleanLabels ==
    /\ pc = "clean"
    /\ IF dtypes.occupation = "numeric"
       THEN \* .str on a numeric column
            /\ pc' = "error"
            /\ error' = "AttributeError"
            /\ UNCHANGED df
       ELSE /\ pc' = "numeric"
            /\ df' = [k \in 1..Len(df) |->
                        [df[k] EXCEPT !.occupation = StripDigits(StripFootnote(@))]]
            /\ UNCHANGED error
    /\ UNCHANGED <<census_file, province_file, dtypes, provincial_dfs,
                   pickle_file, heap, processed_data, dash_pc, last>>

\* pd.to_numeric(df[col].str.replace(',', ''), errors='coerce') of a column
ParseColumn(frame, col) ==
    [k \in 1..Len(frame) |->
        [frame[k] EXCEPT ![col] = ToNumeric(RemoveCommas(@))]]

\* lines 41-43: the loop over total, men, women; .str raises on the first
\* column that read_csv made numeric
ConvertNumeric ==
    /\ pc = "numeric"
    /\ IF \E k \in 1..Len(NumericColumns) : dtypes[NumericColumns[k]] = "numeric"
       THEN /\ pc' = "error"
            /\ error' = "AttributeError"
            /\ UNCHANGED df
       ELSE /\ pc' = "level"
            /\ df' = ParseColumn(ParseColumn(ParseColumn(df, "total"), "men"), "women")
            /\ UNCHANGED error
    /\ UNCHANGED <<census_file, province_file, dtypes, provincial_dfs,
                   pickle_file, heap, processed_data, dash_pc, last>>

\* lines 45-47: level from the label as it is now, then the label trimmed
ComputeLevel ==
    /\ pc = "level"
    /\ pc' = "distribute"
    /\ df' = [k \in 1..Len(df) |->
                LET lvl == StrCountLevel(df[k].occupation)
                IN  With([df[k] EXCEPT !.occupation = Strip(@)], "level", lvl)]
    /\ UNCHANGED <<census_file, province_file, dtypes, provincial_dfs, error,
                   pickle_file, heap, processed_data, dash_pc, last>>

\* lines 55-76: one iteration of the province loop
Distribute ==
    /\ pc = "distribute"
    /\ Len(provincial_dfs) < Len(province_file)
    /\ \E ut \in Jitter, um \in Jitter, uw \in Jitter :
          provincial_dfs' = Append(provincial_dfs,
              ProvinceFrame(df, province_file[Len(provincial_dfs) + 1],
                            SumPopulation(province_file),
                            [total |-> ut, men |-> um, women |-> uw]))
    /\ UNCHANGED <<census_file, province_file, pc, df, dtypes, error,
                   pickle_file, heap, processed_data, dash_pc, last>>

\* lines 88-91 and 100-103: the rows of combined whose label is a value of
\* the dict d, copied, with the display name in column col: [cells, frame]
ExtractCategory(cells, combined, d, col) ==
    LET labels == Column(Deref(cells, combined), "occupation")
        sel == BoolIndex(cells, combined,
                   [k \in 1..Len(combined) |-> IsIn(labels[k], Values(d))])
        cp  == Copy(sel.cells, sel.frame)
        own == Column(Deref(cp.cells, cp.frame), "occupation")
    IN  [cells |-> SetColumn(cp.cells, cp.frame, col,
                       [k \in 1..Len(cp.frame) |-> InverseMap(d, own[k])]),
         frame |-> cp.frame]

\* lines 106-107: the rows whose label matches the NOC top-level pattern
ExtractNoc(cells, combined) ==
    LET labels == Column(Deref(cells, combined), "occupation")
        sel == BoolIndex(cells, combined,
                   [k \in 1..Len(combined) |-> MatchesNoc(labels[k])])
    IN  Copy(sel.cells, sel.frame)

\* lines 78-126: concat, the three extractions, the province table and the
\* pickle of the five tables
ExtractAndSave ==
    /\ pc = "distribute"
    /\ Len(provincial_dfs) = Len(province_file)
    /\ LET combined_df == Alloc(NoCells, Concat(provincial_dfs))
           essential_df == ExtractCategory(combined_df.cells, combined_df.frame,
                               essential_services, "service_type")
           engineering_df == ExtractCategory(essential_df.cells, combined_df.frame,
                                 engineering_occupations, "engineering_type")
           noc_categories == ExtractNoc(engineering_df.cells, combined_df.frame)
           cells == noc_categories.cells
           province_data_processed ==
               [k \in 1..Len(province_file) |->
                   With(province_file[k], "province", province_file[k].province_code)]
       IN  pickle_file' =
               [full_data |-> Deref(cells, combined_df.frame),
                essential_services |-> Deref(cells, essential_df.frame),
                engineering |-> Deref(cells, engineering_df.frame),
                noc_categories |-> Deref(cells, noc_categories.frame),
                province_data |-> province_data_processed]
    /\ pc' = "done"
    /\ UNCHANGED <<census_file, province_file, df, dtypes, provincial_dfs, error,
                   heap, processed_data, dash_pc, last>>

(***************************************************************************)
(* app.py                                                                  *)
(***************************************************************************)
TableNames ==
    {"full_data", "essential_services", "engineering", "noc_categories",
     "province_data"}

\* the tables of the dashboard process, by value
Tables == [n \in TableNames |-> Deref(heap, processed_data[n])]

\* what is left of cells when a callback returns: the rows processed_data holds
Collect(cells) ==
    LET live == UNION {{processed_data[n][k] : k \in 1..Len(processed_data[n])} :
                       n \in TableNames}
    IN  [a \in live |-> cells[a]]

\* Series.sum(): NaN cells are skipped
RECURSIVE SumColumn(_, _)
SumColumn(frame, col) ==
    IF frame = <<>> THEN 0
    ELSE (IF Head(frame)[col] = {} THEN 0 ELSE CHOOSE v \in Head(frame)[col] : TRUE)
            + SumColumn(Tail(frame), col)

\* df.groupby(key).agg({'total': 'sum', 'men': 'sum', 'women': 'sum'})
GroupSum(frame, key) ==
    [g \in {frame[k][key] : k \in 1..Len(frame)} |->
        LET rows == SelectSeq(frame, LAMBDA r : r[key] = g)
        IN  [total |-> SumColumn(rows, "total"), men |-> SumColumn(rows, "men"),
             women |-> SumColumn(rows, "women")]]

\* Series.str.replace(r'^\d+\s+', '', regex=True)
StripCode(s) ==
    LET nd == LeadingRun(s, 1, Digit)
        nw == LeadingRun(s, nd + 1, Whitespace)
    IN  IF nd >= 1 /\ nw >= 1 THEN SubSeq(s, nd + nw + 1, Len(s)) ELSE s

\* lines 19-100: read_pickle into the module-level dict, then the layout,
\* whose NOC dropdown takes noc_categories['occupation'].iloc[0] as its value
LoadDashboard ==
    /\ dash_pc = "not_started"
    /\ pickle_file # NoFile
    /\ LET t1 == Alloc(NoCells, pickle_file.full_data)
           t2 == Alloc(t1.cells, pickle_file.essential_services)
           t3 == Alloc(t2.cells, pickle_file.engineering)
           t4 == Alloc(t3.cells, pickle_file.noc_categories)
           t5 == Alloc(t4.cells, pickle_file.province_data)
       IN  /\ heap' = t5.cells
           /\ processed_data' =
                 [n \in TableNames |->
                     CASE n = "full_data" -> t1.frame
                       [] n = "essential_services" -> t2.frame
                       [] n = "engineering" -> t3.frame
                       [] n = "noc_categories" -> t4.frame
                       [] n = "province_data" -> t5.frame]
           /\ IF Len(t4.frame) = 0
              THEN dash_pc' = "crashed" /\ error' = "IndexError"
              ELSE dash_pc' = "serving" /\ UNCHANGED error
    /\ UNCHANGED <<census_file, province_file, pc, df, dtypes, provincial_dfs,
                   pickle_file, last>>

ServiceOptions == {"all", "Nurses", "Police Officers", "Firefighters"}

\* lines 109-222; the figure is kept by its bar values, without the
\* percentage texts
update_essential_services(service_type) ==
    /\ dash_pc = "serving"
    /\ LET cp == Copy(heap, processed_data["essential_services"])
           agg == GroupSum(Deref(cp.cells, cp.frame), "service_type")
       IN  /\ heap' = Collect(cp.cells)
           /\ last' =
                 IF service_type = "all"
                 THEN [callback |-> "update_essential_services",
                       input |-> <<service_type>>, result |-> "figure", data |-> agg]
                 ELSE IF service_type \in DOMAIN agg
                 THEN [callback |-> "update_essential_services",
                       input |-> <<service_type>>, result |-> "figure",
                       data |-> agg[service_type]]
                 ELSE \* df_filtered['men'].iloc[0] on an empty frame
                      [callback |-> "update_essential_services",
                       input |-> <<service_type>>, result |-> "IndexError",
                       data |-> <<>>]
    /\ UNCHANGED <<census_file, province_file, pc, df, dtypes, provincial_dfs,
                   error, pickle_file, processed_data, dash_pc>>

\* the values the NOC dropdown can send: its options, or None when cleared
CategoryOptions ==
    IF dash_pc # "serving" THEN {}
    ELSE {Tables["noc_categories"][k].occupation :
            k \in 1..Len(processed_data["noc_categories"])} \cup {NaN}

\* lines 230-244
update_gender_employment(category) ==
    /\ dash_pc = "serving"
    /\ LET df0 == processed_data["noc_categories"]
           labels == Column(Deref(heap, df0), "occupation")
           df_filtered == BoolIndex(heap, df0,
                              [k \in 1..Len(df0) |-> labels[k] = category])
           rows == Deref(df_filtered.cells, df_filtered.frame)
       IN  /\ heap' = Collect(df_filtered.cells)
           /\ last' =
                 IF Len(rows) = 0
                 THEN [callback |-> "update_gender_employment",
                       input |-> <<category>>, result |-> "IndexError", data |-> <<>>]
                 ELSE [callback |-> "update_gender_employment",
                       input |-> <<category>>, result |-> "figure",
                       data |-> [men |-> rows[1].men, women |-> rows[1].women]]
    /\ UNCHANGED <<census_file, province_file, pc, df, dtypes, provincial_dfs,
                   error, pickle_file, processed_data, dash_pc>>

EngineeringOptions == {"Computer", "Mechanical", "Electrical"}

\* the manpower-threshold slider, at its initial position
Thresholds == {10000}

\* lines 253-317: the filtered frame gets its labels rewritten, then is
\* aggregated by label
update_engineering_graph(eng_type, threshold) ==
    /\ dash_pc = "serving"
    /\ LET df0 == processed_data["engineering"]
           types == Column(Deref(heap, df0), "engineering_type")
           df_filtered == BoolIndex(heap, df0,
                              [k \in 1..Len(df0) |-> types[k] = eng_type])
           labels == Column(Deref(df_filtered.cells, df_filtered.frame), "occupation")
           cells == SetColumn(df_filtered.cells, df_filtered.frame, "occupation",
                        [k \in 1..Len(labels) |-> StripCode(labels[k])])
           df_agg == GroupSum(Deref(cells, df_filtered.frame), "occupation")
       IN  /\ heap' = Collect(cells)
           /\ last' = [callback |-> "update_engineering_graph",
                       input |-> <<eng_type, threshold>>, result |-> "figure",
                       data |-> df_agg]
    /\ UNCHANGED <<census_file, province_file, pc, df, dtypes, provincial_dfs,
                   error, pickle_file, processed_data, dash_pc>>

\* lines 325-334
update_additional_insights ==
    /\ dash_pc = "serving"
    /\ LET rows == Tables["noc_categories"]
       IN  last' = [callback |-> "update_additional_insights",
                    input |-> <<>>, result |-> "figure",
                    data |-> [k \in 1..Len(rows) |->
                                 [names |-> rows[k].occupation,
                                  values |-> rows[k].total]]]
    /\ UNCHANGED <<census_file, province_file, pc, df, dtypes, provincial_dfs,
                   error, pickle_file, heap, processed_data, dash_pc>>

Next ==
    \/ ReadCsv
    \/ CleanLabels
    \/ ConvertNumeric
    \/ ComputeLevel
    \/ Distribute
    \/ ExtractAndSave
    \/ LoadDashboard
    \/ \E service_type \in ServiceOptions : update_essential_services(service_type)
    \/ \E category \in CategoryOptions : update_gender_employment(category)
    \/ \E eng_type \in EngineeringOptions, threshold \in Thresholds :
          update_engineering_graph(eng_type, threshold)
    \/ update_additional_insights

Spec == Init /\ [][Next]_vars

(***************************************************************************)
(* Properties.                                                             *)
(***************************************************************************)
\* the level column exists from ComputeLevel on
Cleaned == pc \in {"distribute", "done"}

Saved == pickle_file # NoFile

\* the value of a non-NaN numeric cell
ValueOf(cell) == CHOOSE v \in cell : TRUE

Abs(x) == IF x < 0 THEN -x ELSE x

\* v is n / d rounded to the nearest integer, ties to even (d > 0)
IsNearest(v, n, d) ==
    /\ 2 * Abs(v * d - n) <= d
    /\ 2 * Abs(v * d - n) = d => v % 2 = 0

\* C1: for every occupation row, missing counts or not, the stored level is
\* the number of leading whitespace characters of the row's original label.
C1_LevelIsIndentation ==
    Cleaned =>
        /\ Len(df) = Len(census_file)
        /\ \A k \in 1..Len(df) :
              df[k].level = LeadingRun(census_file[k].occupation, 1, Whitespace)

\* C2: every cleaned label has no leading or trailing whitespace and does
\* not end in a digit.
C2_LabelHasNoSuffix ==
    Cleaned =>
        \A k \in 1..Len(df) :
            LET label == df[k].occupation
            IN  /\ LeadingRun(label, 1, Whitespace) = 0
                /\ TrailingRun(label, Len(label), Whitespace) = 0
                /\ TrailingRun(label, Len(label), Digit) = 0

\* positions of the rows of frame whose label is one of labels, in order
Positions(frame, labels) == {k \in 1..Len(frame) : frame[k].occupation \in labels}

\* the j-th smallest element of the set of positions
Nth(positions, j) ==
    CHOOSE k \in positions : Cardinality({i \in positions : i <= k}) = j

EssentialLabels == {NurseLabel, PoliceLabel, FirefighterLabel}

\* C3: essential_services is exactly the rows of the combined table whose
\* label is one of the three fixed labels, in order, each with service_type
\* the display name of its label.
C3_EssentialMembership ==
    Saved =>
        LET full == pickle_file.full_data
            ess  == pickle_file.essential_services
            pos  == Positions(full, EssentialLabels)
        IN  /\ Len(ess) = Cardinality(pos)
            /\ \A j \in 1..Len(ess) :
                  /\ ess[j].service_type \in {"Nurses", "Police Officers", "Firefighters"}
                  /\ ess[j].service_type = "Nurses" => ess[j].occupation = NurseLabel
                  /\ ess[j].service_type = "Police Officers" => ess[j].occupation = PoliceLabel
                  /\ ess[j].service_type = "Firefighters" => ess[j].occupation = FirefighterLabel
                  /\ DOMAIN ess[j] = DOMAIN full[Nth(pos, j)] \cup {"service_type"}
                  /\ \A c \in DOMAIN full[Nth(pos, j)] : ess[j][c] = full[Nth(pos, j)][c]

\* C3 witness: a saved run over two provinces whose combined table holds
\* nurse rows, tagged Nurses, and rows that are no essential service.
C3_Witness ==
    /\ Saved
    /\ Len(province_file) = 2
    /\ \E j \in 1..Len(pickle_file.essential_services) :
          pickle_file.essential_services[j].service_type = "Nurses"
    /\ Len(pickle_file.essential_services) < Len(pickle_file.full_data)

\* C4: when no row matches the NOC pattern the pipeline saves an empty
\* noc_categories table and the dashboard that reads it does not fail: not
\* at startup and not in a callback.
C4_EmptyNocHandled ==
    (Saved /\ Len(pickle_file.noc_categories) = 0) =>
        /\ dash_pc # "crashed"
        /\ last # <<>> => last.result = "figure"

\* C5: in every province frame each of total, men, women has one factor U in
\* [0.8, 1.2] such that every non-missing value of the column is the national
\* value times the population share times U, rounded; with populations 100
\* and 300 a national total of 40 gives 8..12 and 24..36.
C5_OneFactorPerColumn ==
    \A p \in 1..Len(provincial_dfs) :
        LET frame == provincial_dfs[p]
            pop   == province_file[p].population
            sum   == SumPopulation(province_file)
        IN  /\ \A c \in {"total", "men", "women"} :
                  \E u \in JitterLow..JitterHigh :
                      \A k \in 1..Len(df) :
                          df[k][c] # {} =>
                              /\ frame[k][c] # {}
                              /\ IsNearest(ValueOf(frame[k][c]),
                                           ValueOf(df[k][c]) * pop * u, sum * 100)
            /\ \A k \in 1..Len(df) :
                  (df[k].total = {40} /\ sum = 400 /\ pop = 100)
                      => ValueOf(frame[k].total) \in 8..12
            /\ \A k \in 1..Len(df) :
                  (df[k].total = {40} /\ sum = 400 /\ pop = 300)
                      => ValueOf(frame[k].total) \in 24..36

\* C5 witness: populations 100 and 300, a national total of 40, and the two
\* provinces drew different factors for it.
C5_Witness ==
    /\ Len(provincial_dfs) = 2
    /\ province_file[1].population = 100
    /\ province_file[2].population = 300
    /\ \E k \in 1..Len(df) :
          /\ df[k].total = {40}
          /\ provincial_dfs[1][k].total = {8}
          /\ provincial_dfs[2][k].total = {36}

\* the sum over the provinces of the totals of occupation k
RECURSIVE ProvinceSum(_, _)
ProvinceSum(p, k) ==
    IF p = 0 THEN 0
    ELSE ValueOf(pickle_file.full_data[(p - 1) * Len(df) + k].total)
            + ProvinceSum(p - 1, k)

\* C6 as stated: for every occupation with a national total N the sum of
\* its per-province totals lies between 0.8 N and 1.2 N.
C6_SumWithinJitter ==
    Saved =>
        \A k \in 1..Len(df) :
            df[k].total # {} =>
                LET n == ValueOf(df[k].total)
                    s == ProvinceSum(Len(province_file), k)
                IN  80 * n <= 100 * s /\ 100 * s <= 120 * n

\* C6 amended: the sum lies between 0.8 N - P/2 and 1.2 N + P/2, P the
\* number of provinces (each province's share is rounded to an integer).
C6_SumWithinJitterAndRounding ==
    Saved =>
        \A k \in 1..Len(df) :
            df[k].total # {} =>
                LET n == ValueOf(df[k].total)
                    s == ProvinceSum(Len(province_file), k)
                    P == Len(province_file)
                IN  /\ 160 * n - 100 * P <= 200 * s
                    /\ 200 * s <= 240 * n + 100 * P

\* C6 witness: a saved run over two provinces with an occupation whose sum
\* of shares is below 0.8 N because of the rounding.
C6_Witness ==
    /\ Saved
    /\ Len(province_file) = 2
    /\ \E k \in 1..Len(df) :
          /\ df[k].total # {}
          /\ 100 * ProvinceSum(2, k) < 80 * ValueOf(df[k].total)

\* C7: the extractors leave the combined table as concatenated (no
\* service_type or engineering_type column, no changed value), and while the
\* dashboard serves, whatever callbacks have run, its five tables equal the
\* saved ones.
C7_TablesNeverChange ==
    /\ Saved =>
          LET full == pickle_file.full_data
              n    == Len(df)
          IN  /\ Len(full) = n * Len(provincial_dfs)
              /\ \A j \in 1..Len(full) :
                    /\ DOMAIN full[j] \cap {"service_type", "engineering_type"} = {}
                    /\ full[j] = provincial_dfs[((j - 1) \div n) + 1][((j - 1) % n) + 1]
    /\ dash_pc = "serving" =>
          \A t \in TableNames : Deref(heap, processed_data[t]) = pickle_file[t]

\* C7 witness: update_engineering_graph has run and has rewritten the
\* labels of the rows it selected from the engineering table.
C7_Witness ==
    /\ dash_pc = "serving"
    /\ last # <<>>
    /\ last.callback = "update_engineering_graph"
    /\ \E label \in DOMAIN last.data :
          \A j \in 1..Len(pickle_file.engineering) :
              pickle_file.engineering[j].occupation # label

\* C8: the combined table has one row per (province, occupation position):
\* province by province in input order, each with the labels of the cleaned
\* table in their order.
C8_ConcatenationOrder ==
    Saved =>
        LET full == pickle_file.full_data
            n    == Len(df)
            P    == Len(province_file)
        IN  /\ Len(full) = P * n
            /\ \A p \in 1..P : \A k \in 1..n :
                  /\ full[(p - 1) * n + k].province = province_file[p].province_code
                  /\ full[(p - 1) * n + k].occupation = df[k].occupation

\* C8 witness: two provinces and two occupations with different labels
C8_Witness ==
    /\ Saved
    /\ Len(province_file) = 2
    /\ Len(df) = 2
    /\ df[1].occupation # df[2].occupation

\* the population of the province with this code
PopulationOf(code) ==
    LET p == CHOOSE i \in 1..Len(province_file) : province_file[i].province_code = code
    IN  province_file[p].population

\* h hundredths is round(count / population * 100000, 2); NaN for a NaN
\* count.  The populations are multiples of 100, so count * 100000 over
\* population / 100 is the rate in hundredths.
IsRate(rate, count, population) ==
    IF count = {} THEN rate = {}
    ELSE /\ rate # {}
         /\ population % 100 = 0
         /\ IsNearest(ValueOf(rate), ValueOf(count) * 100000, population \div 100)

\* C9: in every row of the combined table per_capita, men_per_capita and
\* women_per_capita are round(count / population * 100000, 2) of the row's
\* own total, men and women and of the population of the row's province.
C9_PerCapitaExact ==
    Saved =>
        \A j \in 1..Len(pickle_file.full_data) :
            LET row == pickle_file.full_data[j]
                pop == PopulationOf(row.province)
            IN  /\ row.population = pop
                /\ IsRate(row.per_capita, row.total, pop)
                /\ IsRate(row.men_per_capita, row.men, pop)
                /\ IsRate(row.women_per_capita, row.women, pop)

\* C9 witness: a row whose rate is no whole number of hundredths before the
\* rounding, in a table of two provinces.
C9_Witness ==
    /\ Saved
    /\ Len(province_file) = 2
    /\ \E j \in 1..Len(pickle_file.full_data) :
          LET row == pickle_file.full_data[j]
          IN  /\ row.total # {}
              /\ (ValueOf(row.total) * 100000) % (row.population \div 100) # 0

\* C10: parsing total, men, women never raises, whatever the tokens: the
\* pipeline goes on, a token that is a number once its commas are removed
\* has become that number and every other token a missing value.
C10_ParsingNeverRaises ==
    /\ ~(pc = "error" /\ error = "AttributeError")
    /\ pc = "level" =>
          \A k \in 1..Len(df) : \A c \in {"total", "men", "women"} :
              LET token == SelectSeq(census_file[k][c], LAMBDA ch : ch # ",")
              IN  IF token # <<>> /\ \A i \in 1..Len(token) : token[i] \in Digit
                  THEN df[k][c] = {DecimalValue(token, Len(token))}
                  ELSE df[k][c] = {}

====
